---- MODULE Spec2Model ----
(***************************************************************************)
(* micro-state: an observable key-value store (createMicroState in         *)
(* src/src/index.ts, StateClient in src/unnamed/part_003).                 *)
(*                                                                         *)
(* The store is two plain JavaScript objects created with {} (so both      *)
(* inherit from Object.prototype): state (key -> value) and observers      *)
(* (key -> Set of callbacks).  Every operation is synchronous; an observer *)
(* invoked by set is caller code that may call back into the store, so a   *)
(* set in progress is a frame on a call stack and the observer it is       *)
(* running makes its own store calls on top of it.                         *)
(***************************************************************************)
EXTENDS Naturals, Sequences, FiniteSets, TLC

VARIABLES
  state,      \* own properties of the state object: canonical key -> value
  observers,  \* own properties of the observers object: canonical key -> Set
  stack,      \* the set calls in progress, innermost last
  calls,      \* history: how many times each callback has been invoked
  ret,        \* history: the last store call made or ended, and its outcome
  lastSet,    \* history: the last set call that returned normally
  touched,    \* history: canonical keys targeted by set or initialize
  nops,       \* number of store calls made so far
  keys,       \* the keys the callers of this run pass
  hooks,      \* the hook instances of the binding layer
  instances   \* the stores created, their tables, and the one being called

vars ==
  <<state, observers, stack, calls, ret, lastSet, touched, nops, keys,
    hooks, instances>>

---------------------------------------------------------------------------
(* Bounds *)

\* store calls (top-level and re-entrant) in one behaviour
MaxOps == 4
\* nested set calls in progress
MaxDepth == 2

---------------------------------------------------------------------------
(* Values *)

Undefined == [t |-> "undefined", s |-> ""]
Str(s) == [t |-> "string", s |-> s]
Bool(b) == [t |-> "boolean", s |-> IF b THEN "true" ELSE "false"]
FunctionValue(name) == [t |-> "function", s |-> name]
ObjectPrototype == [t |-> "object", s |-> "Object.prototype"]

\* the plain (non-function) values callers pass to set and initialize
PlainValues == {Undefined, Str("bar")}

\* the callbacks callers register, told apart by reference
Callbacks == {"cb1", "cb2"}

\* what a slot of the observerArray holds when it is not a callback
NotCallable == "undefined"

\* the hook instances; each one's updateFunction is a callback of its own,
\* named like the instance
Hooks == {"hook1", "hook2"}
UpdateFunctionOf(h) == h

---------------------------------------------------------------------------
(* Keys: type Key = string | (string | number)[]; unsubscribe also takes   *)
(* undefined.                                                              *)

StrKey(s) == [kind |-> "string", str |-> s, segs |-> <<>>]
ArrKey(segs) == [kind |-> "array", str |-> "", segs |-> segs]
UndefinedKey == [kind |-> "undefined", str |-> "", segs |-> <<>>]
StrSeg(s) == [kind |-> "string", str |-> s, num |-> 0]
NumSeg(n) == [kind |-> "number", str |-> "", num |-> n]

Digit == <<"0", "1", "2", "3", "4", "5", "6", "7", "8", "9">>

\* Number.prototype.toString of a non-negative integer
RECURSIVE NumToString(_)
NumToString(n) ==
  IF n < 10 THEN Digit[n + 1]
  ELSE NumToString(n \div 10) \o Digit[(n % 10) + 1]

SegToString(seg) ==
  IF seg.kind = "number" THEN NumToString(seg.num) ELSE seg.str

\* Array.prototype.join
RECURSIVE Join(_, _)
Join(segs, sep) ==
  IF Len(segs) = 0 THEN ""
  ELSE IF Len(segs) = 1 THEN SegToString(segs[1])
  ELSE SegToString(segs[1]) \o sep \o Join(Tail(segs), sep)

serializeKey(key) ==
  IF key.kind = "array" THEN Join(key.segs, ".") ELSE key.str

\* JavaScript truthiness of a key: undefined and "" are falsy, arrays truthy
Truthy(key) ==
  \/ key.kind = "array"
  \/ key.kind = "string" /\ key.str # ""

\* the keys callers pass: one run's callers use one of these families
\* (segment keys, names Object.prototype defines, the empty key)
KeyFamilies ==
  { {StrKey("a"), StrKey("a.0"), ArrKey(<<StrSeg("a"), NumSeg(0)>>)},
    {StrKey("a"), StrKey("constructor"), StrKey("__proto__")},
    {StrKey("a"), StrKey(""), ArrKey(<<>>)} }

---------------------------------------------------------------------------
(* Object.prototype, which both tables inherit from.                       *)

\* the inherited properties the model's keys can name
ObjectPrototypeKeys == {"constructor", "__proto__"}

\* reading an inherited property
ObjectPrototypeGet(key) ==
  IF key = "constructor" THEN FunctionValue("Object")
  ELSE IF key = "__proto__" THEN ObjectPrototype
  ELSE Undefined

\* the length property of an inherited value (Object.length is 1,
\* Object.prototype has none)
LengthOf(v) ==
  IF v = FunctionValue("Object") THEN 1 ELSE 0

\* an object literal a caller stores as a value, and its own properties
ObjectLiteral == [t |-> "object", s |-> "{a: 'bar'}"]

OwnPropertiesOf(v) ==
  IF v = ObjectLiteral THEN ("a" :> Str("bar")) ELSE <<>>

\* the internal slot of a table that holds its prototype, present once an
\* assignment has replaced Object.prototype (no key of the model has this
\* name)
PrototypeSlot == "[[Prototype]]"

\* Object.prototype.hasOwnProperty.call(obj, key)
HasOwnProperty(obj, key) == key \in DOMAIN obj \ {PrototypeSlot}

\* obj[key]: an own property, else the prototype chain, which ends in
\* Object.prototype; "__proto__" reads the prototype itself
GetProp(obj, key) ==
  IF HasOwnProperty(obj, key) THEN obj[key]
  ELSE IF PrototypeSlot \notin DOMAIN obj THEN ObjectPrototypeGet(key)
  ELSE IF key = "__proto__" THEN obj[PrototypeSlot]
  ELSE IF key \in DOMAIN OwnPropertiesOf(obj[PrototypeSlot])
  THEN OwnPropertiesOf(obj[PrototypeSlot])[key]
  ELSE ObjectPrototypeGet(key)

\* the setter of the accessor "__proto__" of Object.prototype: an object
\* becomes the prototype of obj, a primitive is ignored
SetPrototypeOf(obj, v) ==
  IF v.t # "object" THEN obj
  ELSE IF v = ObjectPrototype
  THEN [k \in DOMAIN obj \ {PrototypeSlot} |-> obj[k]]
  ELSE [k \in DOMAIN obj \cup {PrototypeSlot} |->
          IF k = PrototypeSlot THEN v ELSE obj[k]]

\* obj[key] = v: "__proto__" is an accessor that obj inherits, and the
\* assignment calls its setter; any other key becomes (or stays) an own
\* property
PutProp(obj, key, v) ==
  IF HasOwnProperty(obj, key) THEN [obj EXCEPT ![key] = v]
  ELSE IF key = "__proto__" THEN SetPrototypeOf(obj, v)
  ELSE obj @@ (key :> v)

---------------------------------------------------------------------------
(* Mutators: type Mutator<T> = T | Reducer<T>                              *)

\* String(v), as the + operator applies it to its left operand
StringOf(v) ==
  IF v.t = "string" THEN v.s
  ELSE IF v.t = "undefined" THEN "undefined"
  ELSE IF v.t = "boolean" THEN v.s
  ELSE IF v.t = "function" THEN "function " \o v.s \o "() { [native code] }"
  ELSE "[object Object]"

\* the reducer of the tests: (value) => value + "baz"
AppendBaz(v) == Str(StringOf(v) \o "baz")

Value(v) == [fn |-> FALSE, val |-> v]
Reducer == [fn |-> TRUE, val |-> Undefined]
Mutators == {Value(v) : v \in PlainValues} \cup {Reducer}

---------------------------------------------------------------------------
(* The observers table                                                     *)

\* if (observers[key]): an own Set, or any inherited value, is truthy
ObserversTruthy(key) ==
  key \in DOMAIN observers \/ key \in ObjectPrototypeKeys

\* Set.prototype.add on the sequence that keeps the Set's insertion order
SetAdd(set, cb) ==
  IF \E i \in DOMAIN set : set[i] = cb THEN set ELSE Append(set, cb)

\* Set.prototype.delete
SetDelete(set, cb) == SelectSeq(set, LAMBDA x : x # cb)

\* Array.from(observers[key]): the members of an own Set in insertion
\* order; an inherited value is array-like with its length property
ArrayFrom(key) ==
  IF key \in DOMAIN observers THEN observers[key]
  ELSE [i \in 1..LengthOf(ObjectPrototypeGet(key)) |-> NotCallable]

\* the callbacks registered on a key
Registered(key) ==
  IF key \in DOMAIN observers
  THEN {observers[key][i] : i \in DOMAIN observers[key]}
  ELSE {}

---------------------------------------------------------------------------
(* The call stack                                                          *)

Top == stack[Len(stack)]

NoCaller ==
  [depth |-> 0, callerKey |-> "", callerVal |-> Undefined,
   callerLatest |-> Undefined, callerOverwritten |-> "none"]

\* who makes a store call: top-level code, or the observer that the
\* innermost set in progress is running
CallerIn(stk) ==
  IF stk = <<>> THEN NoCaller
  ELSE [depth |-> Len(stk), callerKey |-> stk[Len(stk)].key,
        callerVal |-> stk[Len(stk)].val,
        callerLatest |-> stk[Len(stk)].latest,
        callerOverwritten |-> stk[Len(stk)].overwritten]

\* the callbacks of the sets in progress that an exception leaves uninvoked
RECURSIVE Pending(_)
Pending(stk) ==
  IF stk = <<>> THEN 0
  ELSE (Len(stk[1].observerArray) - stk[1].idx) + Pending(Tail(stk))

\* the outcome of a store call on providedKey: its result val or the
\* exception threw, the diagnostic diag; seq numbers the call, lost counts
\* the callbacks an exception left uninvoked; cb is the callback passed,
\* and fn, arg, old are the mutator of a set and the value it found
OutcomeIn(stk, op, providedKey, val, threw, diag, seq) ==
  [op |-> op, kind |-> providedKey.kind, key |-> serializeKey(providedKey),
   val |-> val, threw |-> threw, diag |-> diag,
   seq |-> seq, lost |-> IF threw = "none" THEN 0 ELSE Pending(stack),
   cb |-> "none", fn |-> FALSE, arg |-> Undefined, old |-> Undefined,
   depth |-> CallerIn(stk).depth, callerKey |-> CallerIn(stk).callerKey,
   callerVal |-> CallerIn(stk).callerVal,
   callerLatest |-> CallerIn(stk).callerLatest,
   callerOverwritten |-> CallerIn(stk).callerOverwritten]

\* the outcome of a call made now
Outcome(op, providedKey, val, threw, diag, seq) ==
  OutcomeIn(stack, op, providedKey, val, threw, diag, seq)

\* the outcome of the innermost set in progress: of a call made by the
\* caller below it
OutcomeOfTop(threw) ==
  [OutcomeIn(SubSeq(stack, 1, Len(stack) - 1), "set", StrKey(Top.key),
             Top.val, threw, FALSE, nops)
     EXCEPT !.fn = Top.fn, !.arg = Top.arg, !.old = Top.old]

NoCalls == [cb \in Callbacks \cup Hooks |-> 0]

NoSet ==
  [valid |-> FALSE, key |-> "", fn |-> FALSE, arg |-> Undefined,
   old |-> Undefined, val |-> Undefined, got |-> Undefined,
   regs |-> <<>>, regsAtReturn |-> <<>>, invoked |-> <<>>,
   before |-> NoCalls, after |-> NoCalls, overwritten |-> "none",
   reentered |-> FALSE, depth |-> 0]

\* the record of a set call f that returns normally to depth, when the
\* state table is st and the invocation counts are after
Returned(f, depth, st, after) ==
  [valid |-> TRUE, key |-> f.key, fn |-> f.fn, arg |-> f.arg,
   old |-> f.old, val |-> f.val, got |-> GetProp(st, f.key),
   regs |-> f.regAtBegin,
   regsAtReturn |-> IF f.key \in DOMAIN observers THEN observers[f.key]
                    ELSE <<>>,
   invoked |-> f.invoked, before |-> f.before, after |-> after,
   overwritten |-> f.overwritten, reentered |-> f.reentered,
   depth |-> depth]

\* history kept in the frames: a write of value to key (by "set" or
\* "initialize") overwrites what the sets in progress on key committed, and
\* a set call re-enters every set in progress
Noted(stk, key, by, value) ==
  [i \in DOMAIN stk |->
     [stk[i] EXCEPT
        !.latest = IF stk[i].key = key THEN value ELSE @,
        !.overwritten = IF stk[i].key # key THEN @
                        ELSE IF by = "initialize" \/ @ = "initialize"
                        THEN "initialize" ELSE "set",
        !.reentered = @ \/ by = "set"]]

\* a store call is made by top-level code or by the running observer
CanCall == nops < MaxOps

\* a hook instance before its first render: impl is the hook the component
\* calls, client whether a store is associated with it, key and value what
\* its last render was given and returned, effect the key its effect
\* subscribed with (on: a cleanup is due)
NoHook ==
  [phase |-> "none", impl |-> "none", client |-> TRUE,
   key |-> UndefinedKey, value |-> Undefined,
   effect |-> [on |-> FALSE, key |-> UndefinedKey]]

\* the objects created by calls of createMicroState: refs gives the
\* references that the variables state and observers of each store's
\* closure hold, heap the object behind each reference.  The model's state
\* and observers are the tables of the store self, whose operations are
\* being called, and heap holds the tables of the others.
FirstInstance ==
  [self |-> "store1",
   refs |-> ("store1" :> [state |-> 1, observers |-> 2]),
   heap |-> (1 :> <<>>) @@ (2 :> <<>>)]

Init ==
  /\ state = <<>>
  /\ observers = <<>>
  /\ stack = <<>>
  /\ calls = NoCalls
  /\ ret = Outcome("create", StrKey(""), Undefined, "none", FALSE, 0)
  /\ lastSet = NoSet
  /\ touched = {}
  /\ nops = 0
  /\ keys \in KeyFamilies
  /\ hooks = [h \in Hooks |-> NoHook]
  /\ instances = FirstInstance

---------------------------------------------------------------------------
(* The operations.  An uncaught exception leaves every set in progress:    *)
(* neither the store nor the observers of the model catch.                 *)

\* Subscribe to the providedKey
subscribe(providedKey, updateFunction) ==
  LET key == serializeKey(providedKey)
      created == IF ObserversTruthy(key) THEN observers
                 ELSE observers @@ (key :> <<>>)
  IN /\ CanCall
     /\ nops' = nops + 1
     /\ IF key \in DOMAIN created
        THEN /\ observers' =
                  [created EXCEPT ![key] = SetAdd(@, updateFunction)]
             /\ ret' = [Outcome("subscribe", providedKey, Undefined, "none",
                                FALSE, nops + 1)
                          EXCEPT !.cb = updateFunction]
             /\ UNCHANGED stack
        ELSE \* the inherited value has no add method
             /\ ret' = [Outcome("subscribe", providedKey, Undefined,
                                "TypeError", FALSE, nops + 1)
                          EXCEPT !.cb = updateFunction]
             /\ stack' = <<>>
             /\ UNCHANGED observers
     /\ UNCHANGED <<state, calls, lastSet, touched, keys, hooks, instances>>

\* whether unsubscribe returns at once: if (!providedKey) return
ReturnsAtOnce(providedKey) == ~Truthy(providedKey)

\* Unsubscribe from the providedKey
unsubscribe(providedKey, updateFunction) ==
  LET key == serializeKey(providedKey)
  IN /\ CanCall
     /\ nops' = nops + 1
     /\ IF ReturnsAtOnce(providedKey)
        THEN /\ ret' = [Outcome("unsubscribe", providedKey, Undefined,
                                "none", FALSE, nops + 1)
                          EXCEPT !.cb = updateFunction]
             /\ UNCHANGED <<observers, stack>>
        ELSE IF ~ObserversTruthy(key)
        THEN \* console.error
             /\ ret' = [Outcome("unsubscribe", providedKey, Undefined,
                                "none", TRUE, nops + 1)
                          EXCEPT !.cb = updateFunction]
             /\ UNCHANGED <<observers, stack>>
        ELSE IF key \in DOMAIN observers
        THEN /\ observers' =
                  [observers EXCEPT ![key] = SetDelete(@, updateFunction)]
             /\ ret' = [Outcome("unsubscribe", providedKey, Undefined,
                                "none", FALSE, nops + 1)
                          EXCEPT !.cb = updateFunction]
             /\ UNCHANGED stack
        ELSE \* the inherited value has no delete method
             /\ ret' = [Outcome("unsubscribe", providedKey, Undefined,
                                "TypeError", FALSE, nops + 1)
                          EXCEPT !.cb = updateFunction]
             /\ stack' = <<>>
             /\ UNCHANGED observers
     /\ UNCHANGED <<state, calls, lastSet, touched, keys, hooks, instances>>

\* typeof mutator === "function" ? mutator(state[key]) : mutator
NewValue(mutator, current) ==
  IF mutator.fn THEN AppendBaz(current) ELSE mutator.val

\* the state table the observers of set(key, ...) run against: the update
\* comes before the calls
StateBeforeCommit(key, value) == state

StateAtNotify(key, value) == PutProp(state, key, value)

\* the array the for loop of a set in progress walks: the copy made by
\* Array.from when the loop began
LiveObservers(f) ==
  IF f.key \in DOMAIN observers THEN observers[f.key] ELSE <<>>

ObserverArrayOf(f) == f.observerArray

\* the observers set notifies: those of observers[key]
ObserversOfAnyKey(key) ==
  IF DOMAIN observers = {} THEN <<>>
  ELSE observers[CHOOSE k \in DOMAIN observers :
                   \A k2 \in DOMAIN observers :
                     Len(observers[k2]) <= Len(observers[k])]

AllButLastObserver(key) ==
  IF key \in DOMAIN observers /\ observers[key] # <<>>
  THEN SubSeq(observers[key], 1, Len(observers[key]) - 1)
  ELSE <<>>

ObserversToNotify(key) ==
  IF ObserversTruthy(key) THEN ArrayFrom(key) ELSE <<>>

\* Set a key to a value or use a reducer to set the value, and trigger all
\* the subscriptions: the call up to the first observer's invocation
set(providedKey, mutator) ==
  LET key == serializeKey(providedKey)
      old == GetProp(state, key)
      value == NewValue(mutator, old)
      observerArray == ObserversToNotify(key)
      f == [key |-> key, fn |-> mutator.fn, arg |-> mutator.val,
            old |-> old, val |-> value, latest |-> value,
            overwritten |-> "none", reentered |-> FALSE,
            observerArray |-> observerArray, idx |-> 1,
            regAtBegin |-> IF key \in DOMAIN observers THEN observers[key]
                           ELSE <<>>,
            invoked |-> <<>>, before |-> calls]
      outcome(op, threw) ==
        [Outcome(op, providedKey, value, threw, FALSE, nops + 1)
           EXCEPT !.fn = mutator.fn, !.arg = mutator.val, !.old = old]
  IN /\ CanCall
     /\ nops' = nops + 1
     /\ state' = StateAtNotify(key, value)
     /\ touched' = touched \cup {key}
     /\ UNCHANGED <<observers, keys, hooks, instances>>
     /\ IF observerArray = <<>>
        THEN /\ stack' = Noted(stack, key, "set", value)
             /\ lastSet' = Returned(f, Len(stack), state', calls)
             /\ ret' = outcome("set", "none")
             /\ UNCHANGED calls
        ELSE IF observerArray[1] = NotCallable
        THEN \* observerCallback is not a function
             /\ stack' = <<>>
             /\ ret' = outcome("set", "TypeError")
             /\ UNCHANGED <<calls, lastSet>>
        ELSE /\ Len(stack) < MaxDepth
             /\ stack' = Append(Noted(stack, key, "set", value),
                                [f EXCEPT !.invoked = <<observerArray[1]>>])
             /\ calls' = [calls EXCEPT ![observerArray[1]] = @ + 1]
             /\ ret' = outcome("notify", "none")
             /\ UNCHANGED lastSet

\* the running observer returns: the for loop of the innermost set invokes
\* the next observer, or set returns
observerReturns ==
  /\ stack # <<>>
  /\ UNCHANGED <<state, observers, touched, nops, keys, hooks, instances>>
  /\ LET f == Top
         observerArray == ObserverArrayOf(f)
     IN IF f.idx < Len(observerArray)
        THEN /\ stack' = [stack EXCEPT ![Len(stack)] =
                  [f EXCEPT !.idx = @ + 1,
                            !.invoked = Append(@, observerArray[f.idx + 1])]]
             /\ calls' = [calls EXCEPT ![observerArray[f.idx + 1]] = @ + 1]
             /\ UNCHANGED <<ret, lastSet>>
        ELSE /\ stack' = SubSeq(stack, 1, Len(stack) - 1)
             /\ lastSet' = Returned(f, Len(stack) - 1, state, calls)
             /\ ret' = OutcomeOfTop("none")
             /\ UNCHANGED calls

\* the running observer throws
observerThrows ==
  /\ stack # <<>>
  /\ stack' = <<>>
  /\ ret' = OutcomeOfTop("Error")
  /\ UNCHANGED <<state, observers, calls, lastSet, touched, nops, keys,
               hooks, instances>>

\* Set a key to a value; this doesn't call the subscribers
initialize(providedKey, value) ==
  LET key == serializeKey(providedKey)
  IN /\ CanCall
     /\ nops' = nops + 1
     /\ state' = PutProp(state, key, value)
     /\ touched' = touched \cup {key}
     /\ stack' = Noted(stack, key, "initialize", value)
     /\ ret' = Outcome("initialize", providedKey, value, "none", FALSE,
                       nops + 1)
     /\ UNCHANGED <<observers, calls, lastSet, keys, hooks, instances>>

\* Get the value for a key
get(providedKey) ==
  LET key == serializeKey(providedKey)
  IN /\ CanCall
     /\ nops' = nops + 1
     /\ ret' = Outcome("get", providedKey, GetProp(state, key), "none",
                       FALSE, nops + 1)
     /\ UNCHANGED <<state, observers, stack, calls, lastSet, touched, keys,
                  hooks, instances>>

\* Get true if the value was set or initialized before, false otherwise
has(providedKey) ==
  LET key == serializeKey(providedKey)
  IN /\ CanCall
     /\ nops' = nops + 1
     /\ ret' = Outcome("has", providedKey, Bool(HasOwnProperty(state, key)),
                       "none", FALSE, nops + 1)
     /\ UNCHANGED <<state, observers, stack, calls, lastSet, touched, keys,
                  hooks, instances>>

Next ==
  \/ \E k \in keys, cb \in Callbacks : subscribe(k, cb)
  \/ \E k \in keys \cup {UndefinedKey}, cb \in Callbacks : unsubscribe(k, cb)
  \/ \E k \in keys, m \in Mutators : set(k, m)
  \/ \E k \in keys, v \in PlainValues : initialize(k, v)
  \/ \E k \in keys : get(k)
  \/ \E k \in keys : has(k)
  \/ observerReturns
  \/ observerThrows

Spec == Init /\ [][Next]_vars

---------------------------------------------------------------------------
(* Reading the tables                                                      *)

\* what get(key) returns and what has(key) answers in the current state
Stored(key) == GetProp(state, key)
Present(key) == HasOwnProperty(state, key)

\* the members of a sequence, and how often cb occurs in it
Members(seq) == {seq[i] : i \in DOMAIN seq}
Count(seq, cb) == Cardinality({i \in DOMAIN seq : seq[i] = cb})

\* the last store call was a get made by an observer that the innermost
\* set in progress on the same key invoked
ObserverGot == ret.op = "get" /\ ret.depth >= 1 /\ ret.callerKey = ret.key

---------------------------------------------------------------------------
(* The binding layer: the hooks useMicroState (src/src/index.ts, on the    *)
(* store of its closure), useMicroState and useMicroStateClient of the     *)
(* StateClient package and useSyncState (src/unnamed/part_003, on the      *)
(* store of the React context).  A component is a hook instance: a render  *)
(* calls the hook, the effects of the render run afterwards, and the       *)
(* cleanup of the last effect runs when the key changes or the component   *)
(* unmounts.  Renders, effects and cleanups are synchronous calls like any *)
(* other: top-level code or a running observer may cause them.             *)

\* what subscribe(providedKey, cb) makes of the observers table tbl
AfterSubscribe(tbl, providedKey, cb) ==
  LET key == serializeKey(providedKey)
      created == IF key \in DOMAIN tbl \/ key \in ObjectPrototypeKeys
                 THEN tbl ELSE tbl @@ (key :> <<>>)
  IN IF key \in DOMAIN created
     THEN [observers |-> [created EXCEPT ![key] = SetAdd(@, cb)],
           threw |-> "none", diag |-> FALSE]
     ELSE [observers |-> tbl, threw |-> "TypeError", diag |-> FALSE]

\* what unsubscribe(providedKey, cb) makes of the observers table tbl
AfterUnsubscribe(tbl, providedKey, cb) ==
  LET key == serializeKey(providedKey)
  IN IF ReturnsAtOnce(providedKey)
     THEN [observers |-> tbl, threw |-> "none", diag |-> FALSE]
     ELSE IF ~(key \in DOMAIN tbl \/ key \in ObjectPrototypeKeys)
     THEN [observers |-> tbl, threw |-> "none", diag |-> TRUE]
     ELSE IF key \in DOMAIN tbl
     THEN [observers |-> [tbl EXCEPT ![key] = SetDelete(@, cb)],
           threw |-> "none", diag |-> FALSE]
     ELSE [observers |-> tbl, threw |-> "TypeError", diag |-> FALSE]

\* the hooks that take their store from the React context
ContextHooks == {"StateClient.useMicroState", "useSyncState"}

\* the hooks that read a key of their store
StoreHooks == ContextHooks \cup {"useMicroState"}

\* the key a hook passes to subscribe and unsubscribe, which is also the
\* dependency of its effect: useMicroState of the StateClient package
\* serializes it first
EffectKey(impl, providedKey) ==
  IF impl = "StateClient.useMicroState"
  THEN StrKey(serializeKey(providedKey)) ELSE providedKey

\* if (!has(key)) initialize(key, initialValue): the table after it, and
\* the observers it notifies (initialize calls no subscriber)
SeedDefaultBySet(key, initialValue) ==
  [state |-> PutProp(state, key, initialValue),
   notified |-> ObserversToNotify(key)]

SeedDefault(key, initialValue) ==
  [state |-> PutProp(state, key, initialValue), notified |-> <<>>]

\* instances are created in the order of their names
FirstUnused(h) ==
  h = "hook2" => hooks["hook1"].phase # "none"

\* a render of instance h calls hook impl: its first render, or a later
\* one of the same component, once the effects of the last have run
MayRender(h, impl, stateClient) ==
  \/ hooks[h].phase = "none" /\ FirstUnused(h)
  \/ /\ hooks[h].phase = "committed"
     /\ hooks[h].impl = impl
     /\ hooks[h].client = stateClient

\* one call of a hook by the render of instance h; stateClient tells
\* whether the hook finds a store
Render(h, impl, providedKey, initialValue, stateClient) ==
  LET key == serializeKey(providedKey)
      absent == ~HasOwnProperty(state, key)
      seeded == SeedDefault(key, initialValue)
  IN /\ CanCall
     /\ nops' = nops + 1
     /\ MayRender(h, impl, stateClient)
     /\ IF ~stateClient
        THEN \* throw new Error("No StateClientProvider specified")
             /\ hooks' = [hooks EXCEPT ![h] =
                  [@ EXCEPT !.phase = "failed", !.impl = impl,
                            !.client = FALSE]]
             /\ ret' = [Outcome(impl, providedKey, Undefined, "Error",
                                FALSE, nops + 1)
                          EXCEPT !.cb = UpdateFunctionOf(h)]
             /\ stack' = <<>>
             /\ UNCHANGED <<state, calls, touched>>
        ELSE /\ state' = IF absent THEN seeded.state ELSE state
             /\ touched' = IF absent THEN touched \cup {key} ELSE touched
             /\ stack' = IF absent
                         THEN Noted(stack, key, "initialize", initialValue)
                         ELSE stack
             /\ calls' = IF absent
                         THEN [cb \in DOMAIN calls |->
                                 calls[cb] + Count(seeded.notified, cb)]
                         ELSE calls
             /\ hooks' = [hooks EXCEPT ![h] =
                  [@ EXCEPT !.phase = "rendered", !.impl = impl,
                            !.client = TRUE,
                            !.key = EffectKey(impl, providedKey),
                            !.value = GetProp(state', key)]]
             /\ ret' = [Outcome(impl, providedKey, GetProp(state', key),
                                "none", FALSE, nops + 1)
                          EXCEPT !.cb = UpdateFunctionOf(h),
                                 !.old = GetProp(state, key),
                                 !.arg = initialValue]
     /\ UNCHANGED <<observers, lastSet, keys, instances>>

\* the hook of createMicroState: its store is the one of its closure
useMicroState(h, key, initialValue) ==
  Render(h, "useMicroState", key, initialValue, TRUE)

\* useMicroState of the StateClient package
StateClientUseMicroState(h, providedKey, initialValue, stateClient) ==
  Render(h, "StateClient.useMicroState", providedKey, initialValue,
         stateClient)

useSyncState(h, key, initialValue, stateClient) ==
  Render(h, "useSyncState", key, initialValue, stateClient)

\* the store object a context holds
StateClientObject == [t |-> "object", s |-> "StateClient"]

\* return useContext(StateContext)
useMicroStateClient(h, stateClient) ==
  /\ CanCall
  /\ nops' = nops + 1
  /\ MayRender(h, "useMicroStateClient", stateClient)
  /\ hooks' = [hooks EXCEPT ![h] =
       [@ EXCEPT !.phase = "committed", !.impl = "useMicroStateClient",
                 !.client = stateClient]]
  /\ ret' = [Outcome("useMicroStateClient", UndefinedKey,
                     IF stateClient THEN StateClientObject ELSE Undefined,
                     "none", FALSE, nops + 1)
               EXCEPT !.cb = UpdateFunctionOf(h)]
  /\ UNCHANGED <<state, observers, stack, calls, lastSet, touched, keys,
               instances>>

\* the effects of the last render of instance h run: when its dependency
\* (the key) changed, the cleanup of the effect before, then the effect
\*   subscribe(key, updateFunction);
\*   return () => unsubscribe(key, updateFunction);
\* An array key is a new array in every render, and so a changed dependency.
effect(h) ==
  LET hk == hooks[h]
      changed == \/ ~hk.effect.on
                 \/ hk.effect.key # hk.key
                 \/ hk.key.kind = "array"
      cleaned == IF hk.effect.on
                 THEN AfterUnsubscribe(observers, hk.effect.key,
                                       UpdateFunctionOf(h))
                 ELSE [observers |-> observers, threw |-> "none",
                       diag |-> FALSE]
      subscribed == IF cleaned.threw = "none"
                    THEN AfterSubscribe(cleaned.observers, hk.key,
                                        UpdateFunctionOf(h))
                    ELSE cleaned
      outcome(threw, diag) ==
        [Outcome("effect", hk.key, Undefined, threw, diag, nops + 1)
           EXCEPT !.cb = UpdateFunctionOf(h)]
  IN /\ CanCall
     /\ nops' = nops + 1
     /\ hk.phase = "rendered"
     /\ IF ~changed
        THEN /\ hooks' = [hooks EXCEPT ![h].phase = "committed"]
             /\ ret' = outcome("none", FALSE)
             /\ UNCHANGED <<observers, stack>>
        ELSE IF subscribed.threw = "none"
        THEN /\ observers' = subscribed.observers
             /\ hooks' = [hooks EXCEPT ![h] =
                  [@ EXCEPT !.phase = "committed",
                            !.effect = [on |-> TRUE, key |-> hk.key]]]
             /\ ret' = outcome("none", cleaned.diag)
             /\ UNCHANGED stack
        ELSE \* the effect (or the cleanup) throws: no cleanup is kept
             /\ observers' = subscribed.observers
             /\ hooks' = [hooks EXCEPT ![h] =
                  [@ EXCEPT !.phase = "failed",
                            !.effect = [on |-> FALSE, key |-> hk.key]]]
             /\ ret' = outcome(subscribed.threw, cleaned.diag)
             /\ stack' = <<>>
     /\ UNCHANGED <<state, calls, lastSet, touched, keys, instances>>

\* the component of instance h unmounts: the cleanup of its effect runs
unmount(h) ==
  LET hk == hooks[h]
      cleaned == IF hk.effect.on
                 THEN AfterUnsubscribe(observers, hk.effect.key,
                                       UpdateFunctionOf(h))
                 ELSE [observers |-> observers, threw |-> "none",
                       diag |-> FALSE]
  IN /\ CanCall
     /\ nops' = nops + 1
     /\ hk.phase = "committed"
     /\ observers' = cleaned.observers
     /\ hooks' = [hooks EXCEPT ![h] =
          [@ EXCEPT !.phase = "unmounted", !.effect.on = FALSE]]
     /\ ret' = [Outcome("unmount", hk.effect.key, Undefined, cleaned.threw,
                        cleaned.diag, nops + 1)
                  EXCEPT !.cb = UpdateFunctionOf(h)]
     /\ stack' = IF cleaned.threw = "none" THEN stack ELSE <<>>
     /\ UNCHANGED <<state, calls, lastSet, touched, keys, instances>>

\* the components of an application, the code around them that sets keys
\* and subscribes callbacks of its own, and the observers set invokes
HookNext ==
  \/ \E h \in Hooks, k \in keys, v \in PlainValues : useMicroState(h, k, v)
  \/ \E h \in Hooks, k \in keys, v \in PlainValues, c \in BOOLEAN :
       StateClientUseMicroState(h, k, v, c)
  \/ \E h \in Hooks, k \in keys, v \in PlainValues, c \in BOOLEAN :
       useSyncState(h, k, v, c)
  \/ \E h \in Hooks, c \in BOOLEAN : useMicroStateClient(h, c)
  \/ \E h \in Hooks : effect(h)
  \/ \E h \in Hooks : unmount(h)
  \/ \E k \in keys : subscribe(k, "cb1")
  \/ \E k \in keys, v \in PlainValues : set(k, Value(v))
  \/ observerReturns

HookSpec == Init /\ [][HookNext]_vars

---------------------------------------------------------------------------
(* Several stores: every call of createMicroState (and every construction  *)
(* of a StateClient) makes a state object and an observers object of its   *)
(* own.                                                                    *)

Stores == {"store1", "store2"}

\* the stores created so far
Created == DOMAIN instances.refs

\* the tables of store s, given the tables st and obs of the store inst.self
StateOfIn(inst, st, s) ==
  IF inst.refs[s].state = inst.refs[inst.self].state THEN st
  ELSE inst.heap[inst.refs[s].state]

ObserversOfIn(inst, obs, s) ==
  IF inst.refs[s].observers = inst.refs[inst.self].observers THEN obs
  ELSE inst.heap[inst.refs[s].observers]

\* const state = {}; const observers = {}: two objects that did not exist
\* before the call
ModuleLevelTables(inst) == inst.refs["store1"]

NewTables(inst) ==
  [state |-> Cardinality(DOMAIN inst.heap) + 1,
   observers |-> Cardinality(DOMAIN inst.heap) + 2]

\* a second store is created
createMicroState ==
  LET tables == NewTables(instances)
  IN /\ CanCall
     /\ nops' = nops + 1
     /\ "store2" \notin Created
     /\ instances' =
          [instances EXCEPT
             !.refs = @ @@ ("store2" :> tables),
             !.heap = @ @@ (tables.state :> <<>>)
                        @@ (tables.observers :> <<>>)]
     /\ ret' = Outcome("create", StrKey(""), Undefined, "none", FALSE,
                       nops + 1)
     /\ UNCHANGED <<state, observers, stack, calls, lastSet, touched, keys,
                    hooks>>

\* top-level code turns to store s: the calls it makes next are calls of
\* the operations of s, on the tables of s
turnTo(s) ==
  LET kept == [instances.heap EXCEPT
                 ![instances.refs[instances.self].state] = state,
                 ![instances.refs[instances.self].observers] = observers]
  IN /\ stack = <<>>
     /\ s \in Created
     /\ s # instances.self
     /\ instances' = [instances EXCEPT !.self = s, !.heap = kept]
     /\ state' = kept[instances.refs[s].state]
     /\ observers' = kept[instances.refs[s].observers]
     /\ UNCHANGED <<stack, calls, ret, lastSet, touched, nops, keys, hooks>>

StoresNext ==
  \/ createMicroState
  \/ \E s \in Stores : turnTo(s)
  \/ \E k \in keys, cb \in Callbacks : subscribe(k, cb)
  \/ \E k \in keys, cb \in Callbacks : unsubscribe(k, cb)
  \/ \E k \in keys : set(k, Value(Str("bar")))
  \/ \E k \in keys : initialize(k, Undefined)
  \/ observerReturns

StoresSpec == Init /\ [][StoresNext]_vars

---------------------------------------------------------------------------
(* Values that are objects: a Value is an arbitrary payload, and callers   *)
(* store object literals as well as primitives.                            *)

\* the values the callers of these runs write
Payloads == PlainValues \cup {ObjectLiteral}

ObjectsNext ==
  \/ \E k \in keys, cb \in Callbacks : subscribe(k, cb)
  \/ \E k \in keys \cup {UndefinedKey}, cb \in Callbacks : unsubscribe(k, cb)
  \/ \E k \in keys, v \in Payloads : set(k, Value(v))
  \/ \E k \in keys, v \in Payloads : initialize(k, v)
  \/ \E k \in keys : get(k)
  \/ \E k \in keys : has(k)
  \/ observerReturns

ObjectsSpec == Init /\ [][ObjectsNext]_vars

---------------------------------------------------------------------------
(* Observers that return: every operation runs to completion, so an        *)
(* observer that is running makes finitely many store calls (at most       *)
(* MaxOps in all, MaxDepth sets deep) and then returns; it throws nothing  *)
(* of its own.                                                             *)

FairNext ==
  \/ \E k \in keys, cb \in Callbacks : subscribe(k, cb)
  \/ \E k \in keys \cup {UndefinedKey}, cb \in Callbacks : unsubscribe(k, cb)
  \/ \E k \in keys, m \in Mutators : set(k, m)
  \/ \E k \in keys, v \in PlainValues : initialize(k, v)
  \/ \E k \in keys : get(k)
  \/ \E k \in keys : has(k)
  \/ observerReturns

FairSpec == Init /\ [][FairNext]_vars /\ WF_vars(observerReturns)

---------------------------------------------------------------------------
(* C1, as stated: every observer invoked by set(k, m) that calls get(k)    *)
(* obtains the value that set produced, also when observers of k call set  *)
(* re-entrantly.                                                           *)
C1_ObserverReadsValueOfItsSet ==
  ObserverGot /\ ret.callerOverwritten # "initialize"
    => ret.val = ret.callerVal

(* C1, amended: the write of set(k, m) precedes every observer invocation  *)
(* of its pass, and an observer of the pass that calls get(k) obtains the  *)
(* value committed last for k: the value that set produced unless a write  *)
(* to k has committed since, and then the value of the latest such write.  *)
C1_CommitThenNotify ==
  /\ \A i \in DOMAIN stack :
       /\ Stored(stack[i].key) = stack[i].latest
       /\ stack[i].overwritten = "none" => stack[i].latest = stack[i].val
  /\ ObserverGot =>
       /\ ret.val = ret.callerLatest
       /\ ret.callerOverwritten = "none" => ret.val = ret.callerVal

\* an observer of set(k, "bar") reads "bar" where k was absent before
C1_Witness ==
  /\ ObserverGot
  /\ ret.callerOverwritten = "none"
  /\ ret.val = Str("bar")
  /\ stack # <<>> /\ Top.old = Undefined

---------------------------------------------------------------------------
(* C2, as stated: for every callback cb registered on k when set(k, v1),   *)
(* v1 not a function, is called: when set returns, get(k) = v1 and cb has  *)
(* been invoked exactly once more than before the call.                    *)
C2_SetThenGetAndOneCall ==
  lastSet.valid /\ ~lastSet.fn =>
    \A cb \in Members(lastSet.regs) :
      /\ lastSet.got = lastSet.arg
      /\ lastSet.after[cb] = lastSet.before[cb] + 1

(* C2, amended: when set(k, v1) returns, its own notification pass has     *)
(* invoked every callback registered on k at the call exactly once; the    *)
(* callback has been invoked exactly once more than before the call if no  *)
(* observer made a re-entrant set during the call; and get(k) = v1 if no   *)
(* observer wrote k (set or initialize) during the call.                   *)
C2_SetNotifiesOncePerPass ==
  lastSet.valid /\ ~lastSet.fn =>
    \A cb \in Members(lastSet.regs) :
      /\ Count(lastSet.invoked, cb) = 1
      /\ ~lastSet.reentered => lastSet.after[cb] = lastSet.before[cb] + 1
      /\ lastSet.overwritten = "none" => lastSet.got = lastSet.arg

\* set(k, "bar") has returned after notifying two callbacks, with no
\* re-entrant call
C2_Witness ==
  /\ lastSet.valid /\ ~lastSet.fn
  /\ lastSet.arg = Str("bar") /\ lastSet.got = Str("bar")
  /\ Len(lastSet.regs) = 2
  /\ ~lastSet.reentered /\ lastSet.overwritten = "none"
  /\ \A cb \in Callbacks : lastSet.after[cb] = lastSet.before[cb] + 1

---------------------------------------------------------------------------
(* C3: the callbacks one notification pass of set(k, ...) invokes are the  *)
(* callbacks registered on k when the pass begins, each exactly once and   *)
(* in their order, whatever observers subscribe to or unsubscribe from k   *)
(* during the pass: at every moment the pass has invoked exactly the first *)
(* callbacks of that registration, and when set returns it has invoked     *)
(* them all.  (A pass that an exception ends stops there.)                 *)
C3_SnapshotNotification ==
  /\ \A i \in DOMAIN stack :
       /\ Len(stack[i].invoked) = stack[i].idx
       /\ stack[i].idx <= Len(stack[i].regAtBegin)
       /\ stack[i].invoked = SubSeq(stack[i].regAtBegin, 1, stack[i].idx)
       /\ \A cb \in Callbacks : Count(stack[i].regAtBegin, cb) <= 1
  /\ lastSet.valid =>
       /\ lastSet.invoked = lastSet.regs
       /\ \A cb \in Callbacks : Count(lastSet.invoked, cb) <= 1

\* a pass over two callbacks has completed although one of them was
\* unsubscribed from the key while the pass ran
C3_Witness ==
  /\ lastSet.valid
  /\ Len(lastSet.regs) = 2
  /\ Len(lastSet.regsAtReturn) = 1
  /\ lastSet.invoked = lastSet.regs

---------------------------------------------------------------------------
(* C4: when an observer of k calls set(k2, v2), k2 # k, during k's pass,   *)
(* the inner set returns to the observer (so the outer pass goes on and    *)
(* the outer set returns), the inner pass has invoked every callback       *)
(* registered on k2 exactly once, and the outer pass invokes every         *)
(* callback of its own exactly once.                                       *)
C4_ReentrantSetOnOtherKey ==
  /\ (ret.op = "set" /\ ret.depth >= 1 /\ ret.callerKey # ret.key)
       => ret.threw # "TypeError"
  /\ (lastSet.valid /\ (lastSet.depth >= 1 \/ lastSet.reentered))
       => lastSet.invoked = lastSet.regs

---------------------------------------------------------------------------
(* C5: set(k, ...) invokes only callbacks registered under the canonical   *)
(* form of k: every invocation of a callback is made by the pass of a set  *)
(* in progress, on whose key the callback was registered when the pass     *)
(* began.                                                                  *)
C5_OnlyObserversOfKey ==
  [][\A cb \in Callbacks :
       calls'[cb] # calls[cb] =>
         /\ calls'[cb] = calls[cb] + 1
         /\ stack' # <<>>
         /\ cb \in Members(stack'[Len(stack')].regAtBegin)]_vars

\* set(k, ...) has notified its observer, and a callback registered only
\* on another key has never been invoked
C5_Witness ==
  /\ lastSet.valid /\ lastSet.invoked # <<>>
  /\ \E k \in DOMAIN observers, cb \in Callbacks :
       /\ k # lastSet.key
       /\ cb \in Registered(k)
       /\ cb \notin Registered(lastSet.key)
       /\ cb \notin Members(lastSet.regs)
       /\ calls[cb] = 0

---------------------------------------------------------------------------
(* C6: after initialize(k, v), has(k) is true and get(k) is v, and the     *)
(* call invokes no callback.                                               *)
C6_InitializeSeedsSilently ==
  [][(ret'.op = "initialize" /\ nops' = nops + 1)
       => (/\ HasOwnProperty(state', ret'.key)
           /\ GetProp(state', ret'.key) = ret'.val
           /\ calls' = calls)]_vars

---------------------------------------------------------------------------
(* C7: for every key never targeted by set or initialize, has(k) is false  *)
(* and get(k) returns undefined.                                           *)
C7_UntouchedKeyIsAbsent ==
  \A k \in keys :
    serializeKey(k) \notin touched =>
      /\ ~Present(serializeKey(k))
      /\ Stored(serializeKey(k)) = Undefined

---------------------------------------------------------------------------
(* C8: has(k) is true exactly when a set or initialize has targeted k's    *)
(* canonical form (and so, the targets only growing, stays true).          *)
C8_PresentIffTouched ==
  \A k \in keys : Present(serializeKey(k)) <=> serializeKey(k) \in touched

---------------------------------------------------------------------------
(* C9: set(k, f) with f a function invokes f with the value stored for k   *)
(* (undefined if k was never written) and commits f of it; a mutator that  *)
(* is not a function is committed as it is.                                *)
C9_ReducerForm ==
  [][(ret'.op \in {"set", "notify"} /\ nops' = nops + 1) =>
       LET v0 == IF ret'.key \in touched THEN Stored(ret'.key)
                 ELSE Undefined
       IN IF ret'.fn
          THEN /\ ret'.old = v0
               /\ GetProp(state', ret'.key) = AppendBaz(v0)
          ELSE GetProp(state', ret'.key) = ret'.arg]_vars

---------------------------------------------------------------------------
(* C10: unsubscribe(k, cb), with the key and the callback of an earlier    *)
(* subscribe(k, cb), leaves cb not registered on k.                        *)
C10_UnsubscribeRemoves ==
  [][(/\ ret'.op = "unsubscribe" /\ nops' = nops + 1
      /\ ret'.kind # "undefined"
      /\ ret'.cb \in Registered(ret'.key))
       => (/\ ret'.key \in DOMAIN observers'
           /\ \A i \in DOMAIN observers'[ret'.key] :
                observers'[ret'.key][i] # ret'.cb)]_vars

---------------------------------------------------------------------------
(* Reading two successive states of the observers table                    *)

\* the callbacks a table tbl holds for key
RegisteredIn(tbl, key) ==
  IF key \in DOMAIN tbl THEN Members(tbl[key]) ELSE {}

\* the step is a call of unsubscribe with a key that is not undefined
UnsubscribeWithKey ==
  ret'.op = "unsubscribe" /\ nops' = nops + 1 /\ ret'.kind # "undefined"

---------------------------------------------------------------------------
(* C11: unsubscribe(k, cb1) removes cb1 and only cb1 from the callbacks of *)
(* k: every other callback of k stays registered, in its place, the        *)
(* callbacks of every other key stay as they are, and a cb1 that is not    *)
(* registered on k leaves the table as it is.                              *)
C11_UnsubscribeByIdentity ==
  [][UnsubscribeWithKey =>
       /\ \A k \in DOMAIN observers \cup DOMAIN observers' :
            RegisteredIn(observers', k) =
              IF k = ret'.key THEN RegisteredIn(observers, k) \ {ret'.cb}
              ELSE RegisteredIn(observers, k)
       /\ \A k \in DOMAIN observers :
            \A i, j \in DOMAIN observers'[k] :
              i < j => \E i0, j0 \in DOMAIN observers[k] :
                         /\ i0 < j0
                         /\ observers[k][i0] = observers'[k][i]
                         /\ observers[k][j0] = observers'[k][j]]_vars

---------------------------------------------------------------------------
(* C12: subscribe(k, cb) leaves cb registered on k exactly once, and when  *)
(* cb was registered on k already it leaves the observer table as it was;  *)
(* so every pass of set(k, ...) holds cb at most once, and one             *)
(* unsubscribe(k, cb) leaves cb not registered on k at all.                *)
C12_SubscribeIdempotent ==
  [][/\ (ret'.op = "subscribe" /\ nops' = nops + 1)
          => (/\ ret'.key \in DOMAIN observers'
              /\ Count(observers'[ret'.key], ret'.cb) = 1
              /\ ret'.cb \in RegisteredIn(observers, ret'.key)
                   => observers' = observers)
     /\ \A i \in DOMAIN stack' :
          \A cb \in Callbacks : Count(stack'[i].observerArray, cb) <= 1
     /\ UnsubscribeWithKey
          => ret'.cb \notin RegisteredIn(observers', ret'.key)]_vars

---------------------------------------------------------------------------
(* C13: every operation acts on the entry that the canonical string of its *)
(* key names, whether the key is passed as a string or as a sequence of    *)
(* segments, and on no other entry: subscribe and unsubscribe add and      *)
(* remove the callback in the observer set of the canonical string, set    *)
(* and initialize write its value and set notifies its observers (so       *)
(* subscribe(["a", 0], cb) and then set("a.0", v) invokes cb), get and has *)
(* read it.                                                                *)
C13_KeyNormalization ==
  [][(nops' = nops + 1 /\ ret'.threw = "none" /\ ret'.kind # "undefined") =>
       LET c == ret'.key
           others(tbl) == [k \in DOMAIN tbl \ {c} |-> tbl[k]]
       IN /\ others(state') = others(state)
          /\ others(observers') = others(observers)
          /\ ret'.op = "subscribe" =>
               RegisteredIn(observers', c) =
                 RegisteredIn(observers, c) \cup {ret'.cb}
          /\ ret'.op = "unsubscribe" =>
               RegisteredIn(observers', c) =
                 RegisteredIn(observers, c) \ {ret'.cb}
          /\ ret'.op \in {"set", "notify", "initialize"} =>
               /\ state' = PutProp(state, c, ret'.val)
               /\ observers' = observers
          /\ ret'.op = "notify" =>
               Top'.observerArray = ArrayFrom(c)
          /\ ret'.op = "set" => RegisteredIn(observers, c) = {}
          /\ ret'.op = "get" => ret'.val = GetProp(state, c)
          /\ ret'.op = "has" => ret'.val = Bool(HasOwnProperty(state, c))]_vars

---------------------------------------------------------------------------
(* C14: unsubscribe(k, cb) on a key k for which no observer set exists     *)
(* does not throw, emits the diagnostic, and leaves the value table and    *)
(* the whole observer table as they were (no observer set is created).     *)
C14_OrphanedUnsubscribe ==
  [][(UnsubscribeWithKey /\ ret'.key \notin DOMAIN observers)
       => (/\ ret'.threw = "none"
           /\ ret'.diag
           /\ observers' = observers
           /\ state' = state)]_vars

---------------------------------------------------------------------------
(* C15: unsubscribe with an undefined key does not throw, emits no         *)
(* diagnostic and leaves both tables as they were; and only an undefined   *)
(* key is passed over in silence: a call with a key never returns without  *)
(* a diagnostic where the key has no observer set, nor leaves a registered *)
(* callback in place.                                                      *)
C15_SilentOnlyIfUndefined ==
  [][(ret'.op = "unsubscribe" /\ nops' = nops + 1) =>
       LET silent ==
             /\ ret'.threw = "none" /\ ~ret'.diag
             /\ observers' = observers
             /\ \/ ret'.key \notin DOMAIN observers
                \/ ret'.cb \in RegisteredIn(observers, ret'.key)
       IN /\ ret'.kind = "undefined" =>
               /\ ret'.threw = "none" /\ ~ret'.diag
               /\ observers' = observers /\ state' = state
               /\ stack' = stack /\ calls' = calls
          /\ silent => ret'.kind = "undefined"]_vars

---------------------------------------------------------------------------
(* C16: a hook instance has its callback registered once on the key it     *)
(* observes and on no other key: after its effects have run, on the key of *)
(* its last render only (the cleanup has removed it from the key before),  *)
(* and after its teardown on no key at all.                                *)
C16_HookTeardown ==
  \A h \in Hooks :
    LET on(k) == Count(observers[k], UpdateFunctionOf(h))
    IN /\ hooks[h].phase \in {"none", "unmounted"} =>
            \A k \in DOMAIN observers : on(k) = 0
       /\ (hooks[h].phase = "committed" /\ hooks[h].effect.on) =>
            \A k \in DOMAIN observers :
              on(k) = IF k = serializeKey(hooks[h].effect.key) THEN 1 ELSE 0

---------------------------------------------------------------------------
(* C17: a render of a hook on a key with no stored value writes the        *)
(* default as initialize does, and mounting a hook consumer (its render    *)
(* and its effect) invokes no observer, starts no notification pass and    *)
(* completes no set, whatever is subscribed to the key.                    *)
C17_SeedingNotifiesNoObserver ==
  [][(nops' = nops + 1 /\ ret'.op \in StoreHooks \cup {"effect"}) =>
       /\ calls' = calls
       /\ Len(stack') <= Len(stack)
       /\ lastSet' = lastSet
       /\ (ret'.op \in StoreHooks /\ ret'.threw = "none") =>
            state' = IF HasOwnProperty(state, ret'.key) THEN state
                     ELSE PutProp(state, ret'.key, ret'.arg)]_vars

\* a hook has seeded "bar" for a key that had no value and that a callback
\* from outside the binding layer is subscribed to, and the callback has
\* not been invoked
C17_Witness ==
  /\ ret.op \in StoreHooks /\ ret.threw = "none"
  /\ ret.old = Undefined /\ ret.arg = Str("bar") /\ ret.val = Str("bar")
  /\ Present(ret.key)
  /\ "cb1" \in Registered(ret.key)
  /\ calls["cb1"] = 0

---------------------------------------------------------------------------
(* C18: a hook that takes its store from the context (useMicroState and    *)
(* useMicroStateClient of the StateClient package, useSyncState) and finds *)
(* no store there throws, and has changed neither table nor invoked a      *)
(* callback before it does.                                                *)
C18_MissingStoreContext ==
  [][(/\ nops' = nops + 1
      /\ ret'.op \in ContextHooks \cup {"useMicroStateClient"}
      /\ ~hooks'[ret'.cb].client)
       => (/\ ret'.threw = "Error"
           /\ state' = state
           /\ observers' = observers
           /\ calls' = calls)]_vars

---------------------------------------------------------------------------
(* C19: an operation of one store leaves the value table and the observer  *)
(* table of every other store as they were, a store just created has       *)
(* empty tables, and a callback that is registered on no key of the store  *)
(* being called (nor was when a pass in progress began) is not invoked,    *)
(* wherever else it is subscribed.                                         *)
C19_StoresIndependent ==
  [][/\ \A s \in Created :
          (s # instances.self \/ instances'.self # instances.self) =>
            /\ StateOfIn(instances', state', s) =
                 StateOfIn(instances, state, s)
            /\ ObserversOfIn(instances', observers', s) =
                 ObserversOfIn(instances, observers, s)
     /\ \A s \in DOMAIN instances'.refs \ Created :
          /\ StateOfIn(instances', state', s) = <<>>
          /\ ObserversOfIn(instances', observers', s) = <<>>
     /\ \A cb \in Callbacks :
          (/\ \A k \in DOMAIN observers : cb \notin Registered(k)
           /\ \A i \in DOMAIN stack : cb \notin Members(stack[i].regAtBegin))
            => calls'[cb] = calls[cb]]_vars

\* store1 has invoked cb1 for a set of "a" while cb2 is subscribed to "a",
\* on store2 only, and has never been invoked
C19_Witness ==
  /\ Created = Stores /\ instances.self = "store1"
  /\ lastSet.valid /\ lastSet.key = "a" /\ lastSet.invoked = <<"cb1">>
  /\ Registered("a") = {"cb1"}
  /\ RegisteredIn(ObserversOfIn(instances, observers, "store2"), "a") =
       {"cb2"}
  /\ "a" \notin DOMAIN StateOfIn(instances, state, "store2")
  /\ Present("a")
  /\ calls["cb2"] = 0

---------------------------------------------------------------------------
(* C20: get(k) returns the value of the write (set or initialize) to k     *)
(* that committed last: a write leaves its value stored for its key and    *)
(* every other key as it was, nothing but a write changes the value table, *)
(* and get returns what is stored; so while a set of k is in progress its  *)
(* observers read the value written to k last, also by a re-entrant set,   *)
(* and that is what get(k) returns when the outer set has returned.        *)
C20_LastWriterWins ==
  [][LET written == nops' = nops + 1
                      /\ ret'.op \in {"set", "notify", "initialize"}
     IN /\ written =>
             /\ GetProp(state', ret'.key) = ret'.val
             /\ \A k \in DOMAIN state \ {ret'.key} :
                  k \in DOMAIN state' /\ state'[k] = state[k]
        /\ ~written => state' = state
        /\ (nops' = nops + 1 /\ ret'.op = "get") =>
             ret'.val = GetProp(state, ret'.key)
        /\ \A i \in DOMAIN stack' :
             GetProp(state', stack'[i].key) = stack'[i].latest
        /\ (lastSet' # lastSet /\ Len(stack') < Len(stack)) =>
             /\ lastSet'.got = Top.latest
             /\ lastSet'.got = GetProp(state', lastSet'.key)]_vars

---------------------------------------------------------------------------
(* C21: the frame of each operation.  get and has change neither table and *)
(* invoke no callback; subscribe and unsubscribe leave the value table as  *)
(* it was and invoke no callback; initialize leaves the observer table as  *)
(* it was; set leaves the observer table as it was and changes the value   *)
(* table at its own key only: what get and has answer for every other key  *)
(* is what they answered before.                                           *)
C21_FrameOfEachOperation ==
  [][(nops' = nops + 1) =>
       LET others == {serializeKey(k) : k \in keys} \ {ret'.key}
       IN /\ ret'.op \in {"get", "has"} =>
               state' = state /\ observers' = observers /\ calls' = calls
          /\ ret'.op \in {"subscribe", "unsubscribe"} =>
               state' = state /\ calls' = calls
          /\ ret'.op = "initialize" => observers' = observers
          /\ ret'.op \in {"set", "notify"} =>
               /\ observers' = observers
               /\ \A k \in others :
                    /\ GetProp(state', k) = GetProp(state, k)
                    /\ HasOwnProperty(state', k) = HasOwnProperty(state, k)]_vars

---------------------------------------------------------------------------
\* the step is an observer throwing: the exception leaves every set in
\* progress
ObserverThrew ==
  stack # <<>> /\ stack' = <<>> /\ ret'.op = "set" /\ ret'.threw = "Error"

(* C22, as stated: when an observer throws during the pass of set(k, m),   *)
(* get(k) returns the value that set produced and has(k) is true, every    *)
(* callback stays registered, the callbacks after the throwing one in the  *)
(* pass's snapshot are not invoked, and the exception leaves set.          *)
C22_ThrowKeepsValueOfSet ==
  [][ObserverThrew =>
       /\ \A i \in DOMAIN stack :
            /\ GetProp(state', stack[i].key) = stack[i].val
            /\ HasOwnProperty(state', stack[i].key)
       /\ observers' = observers
       /\ calls' = calls
       /\ lastSet' = lastSet]_vars

(* C22, amended: when an observer throws during the pass of set(k, m), the *)
(* value committed last for k stays committed: get(k) returns the value    *)
(* that set produced unless an observer wrote k again before the throw,    *)
(* and then the value of the latest such write, and has(k) is true; every  *)
(* callback stays registered; the callbacks after the throwing one in the  *)
(* pass's snapshot are not invoked (the pass had invoked the first idx     *)
(* callbacks of its snapshot and ends there, counted in lost); and the     *)
(* exception leaves set, which does not complete.                          *)
C22_ThrowKeepsCommit ==
  [][ObserverThrew =>
       /\ \A i \in DOMAIN stack :
            /\ GetProp(state', stack[i].key) = stack[i].latest
            /\ stack[i].overwritten = "none" =>
                 GetProp(state', stack[i].key) = stack[i].val
            /\ HasOwnProperty(state', stack[i].key)
            /\ Len(stack[i].invoked) = stack[i].idx
            /\ stack[i].idx <= Len(stack[i].observerArray)
       /\ ret'.key = Top.key /\ ret'.val = Top.val
       /\ ret'.lost = Pending(stack)
       /\ ret'.lost >= Len(Top.observerArray) - Len(Top.invoked)
       /\ observers' = observers
       /\ calls' = calls
       /\ lastSet' = lastSet]_vars

\* the first of two observers of set(k, "bar") has thrown: "bar" is stored
\* for k, both callbacks are still registered and the second has never
\* been invoked
C22_Witness ==
  /\ ret.op = "set" /\ ret.threw = "Error" /\ stack = <<>>
  /\ ret.depth = 0 /\ ret.lost = 1
  /\ ret.val = Str("bar") /\ Stored(ret.key) = Str("bar")
  /\ Present(ret.key)
  /\ Registered(ret.key) = {"cb1", "cb2"}
  /\ calls["cb1"] + calls["cb2"] = 1
  /\ ~lastSet.valid

---------------------------------------------------------------------------
\* what a step does to the sets in progress
DepthFirstStep ==
  /\ \A i \in DOMAIN stack \cap DOMAIN stack' :
       stack'[i].idx # stack[i].idx =>
         /\ i = Len(stack) /\ i = Len(stack')
         /\ stack'[i].idx = stack[i].idx + 1
  /\ (Len(stack') > Len(stack)) =>
       /\ Len(stack') = Len(stack) + 1
       /\ GetProp(state', Top'.key) = Top'.val
       /\ Top'.idx = 1
       /\ calls'[Top'.observerArray[1]] = calls[Top'.observerArray[1]] + 1
  /\ (Len(stack') < Len(stack)) =>
       /\ ret'.threw = "none"
       /\ Len(stack') = Len(stack) - 1
       /\ lastSet'.invoked = Top.observerArray
       /\ lastSet'.invoked = lastSet'.regs
       /\ \A cb \in Members(lastSet'.regs) :
            (/\ stack' # <<>>
             /\ Top'.key = lastSet'.key
             /\ cb \in Members(Top'.invoked))
              => calls'[cb] >= Top'.before[cb] + 2
  /\ (nops' = nops + 1 /\ stack # <<>>) => ret'.threw = "none"

(* C23: nested passes run depth-first.  Only the innermost set in progress *)
(* invokes observers: a set made by an observer has committed when its     *)
(* pass begins, and a pass below it invokes its next observer only when    *)
(* the inner set has returned, having invoked its whole snapshot.  A set   *)
(* that an observer makes returns to the observer, and every set in        *)
(* progress returns in the end, with observers that make finitely many     *)
(* calls and throw nothing.  When a set of k made by an observer of k      *)
(* returns, every callback that both passes hold has been invoked at least *)
(* twice since the outer set was called.                                   *)
C23_DepthFirst ==
  /\ [][DepthFirstStep]_vars
  /\ (stack # <<>>) ~> (stack = <<>> /\ ret.op = "set" /\ ret.threw = "none")

---------------------------------------------------------------------------
(* C24: set always notifies and always commits.  A call set(k, m) leaves   *)
(* its value stored for k, whether k has observers, an empty observer set  *)
(* or none; it starts a pass over every callback registered on k, whether  *)
(* or not the value differs from the one k held; and a set that returns    *)
(* has invoked every one of them.                                          *)
C24_SetAlwaysNotifies ==
  [][/\ (nops' = nops + 1 /\ ret'.op \in {"set", "notify"}) =>
          /\ GetProp(state', ret'.key) = ret'.val
          /\ Registered(ret'.key) # {} =>
               /\ ret'.op = "notify"
               /\ Top'.observerArray = observers[ret'.key]
               /\ calls'[observers[ret'.key][1]] =
                    calls[observers[ret'.key][1]] + 1
          /\ Registered(ret'.key) = {} => calls' = calls
     /\ lastSet' # lastSet =>
          /\ lastSet'.invoked = lastSet'.regs
          /\ \A cb \in Members(lastSet'.regs) :
               lastSet'.after[cb] >= lastSet'.before[cb] + 1]_vars

---------------------------------------------------------------------------
(* C25: a hook never overwrites a present key.  A render seeds its default *)
(* only where has(key) is false and otherwise leaves the value table as it *)
(* was; where the key was written before (by set, by initialize, or by the *)
(* seeding of an earlier render) the value read for it stays what it was,  *)
(* an explicit undefined included; where the key was never written the     *)
(* default is stored for it; no other key changes; and the hook returns    *)
(* the value stored for the key.                                           *)
C25_HookNeverOverwrites ==
  [][(nops' = nops + 1 /\ ret'.op \in StoreHooks /\ ret'.threw = "none") =>
       LET k == ret'.key
       IN /\ HasOwnProperty(state, k) => state' = state
          /\ k \in touched => GetProp(state', k) = GetProp(state, k)
          /\ k \notin touched => GetProp(state', k) = ret'.arg
          /\ \A k2 \in DOMAIN state \ {k} :
               k2 \in DOMAIN state' /\ state'[k2] = state[k2]
          /\ ret'.val = GetProp(state', k)
          /\ hooks'[ret'.cb].value = GetProp(state', k)]_vars

====
